---- MODULE Spec2Model ----
(***************************************************************************)
(* Model of the MDX runtime shim of webpack module 3905 in                  *)
(* src/assets/js/00634dd8.062cee42.js (@mdx-js/react, minified):            *)
(*   i  objectSpread               l  objectWithoutProperties               *)
(*   s  the React context          p  useMDXComponents                      *)
(*   c  MDXProvider  (export Zo)   d  the built-in default components       *)
(*   u  MDXCreateElement           f  the createElement factory (export kt) *)
(* JavaScript objects live in a heap and are passed by reference, so that   *)
(* an in-place update of a shared object is visible to every holder.        *)
(***************************************************************************)
EXTENDS Integers, Sequences, FiniteSets, TLC

VARIABLES heap, scopes, given, call, el, out

vars == <<heap, scopes, given, call, el, out>>

(* ------------------------------ bounds --------------------------------- *)

\* Deepest nesting of MDXProvider scopes explored.
MaxDepth == 2

\* Most positional children passed to one kt call.
MaxChildren == 2

(* ------------------------- JavaScript values --------------------------- *)

\* A value is a record [k, v]: k its kind, v its text (a string's characters,
\* a function's name, an object's heap location).
Undefined == [k |-> "undefined", v |-> ""]

Null == [k |-> "null", v |-> ""]

True == [k |-> "boolean", v |-> "true"]

Str(s) == [k |-> "string", v |-> s]

Fn(name) == [k |-> "function", v |-> name]

Ref(loc) == [k |-> "object", v |-> loc]

\* typeof x
TypeOf(x) == IF x.k = "null" THEN "object" ELSE x.k

\* ToBoolean(x), as used by ||, && and ?: (no number or false occurs here).
Truthy(x) == ~(x.k \in {"undefined", "null"} \/ x = Str(""))

\* x || y
OrElse(x, y) == IF Truthy(x) THEN x ELSE y

\* ToString(x), as "".concat applies it to each argument.
ToStr(x) ==
  CASE x.k = "string" -> x.v
    [] x.k = "undefined" -> "undefined"
    [] x.k = "null" -> "null"
    [] x.k = "boolean" -> x.v
    [] x.k = "object" -> "[object Object]"
    [] OTHER -> "function " \o x.v

\* "".concat(s, ".", f)
Concat(s, f) == ToStr(s) \o "." \o ToStr(f)

(* ------------------------------ objects -------------------------------- *)

\* An object is a function from its own enumerable property names to values.
EmptyObject == [key \in {} |-> Undefined]

Obj1(k1, v1) == [key \in {k1} |-> v1]

Obj2(k1, v1, k2, v2) == [key \in {k1, k2} |-> IF key = k1 THEN v1 ELSE v2]

Obj3(k1, v1, k2, v2, k3, v3) ==
  [key \in {k1, k2, k3} |-> IF key = k1 THEN v1 ELSE IF key = k2 THEN v2 ELSE v3]

\* d: the built-in default components.
DEFAULTS == Obj2("inlineCode", Str("code"), "wrapper", Fn("wrapper"))

\* What every object literal inherits from Object.prototype ("toString"
\* stands for all the inherited names: constructor, valueOf, ...).
ObjectPrototype == Obj1("toString", Fn("Object.prototype.toString"))

\* obj[key]: the own property, else the inherited one, else undefined.
GetProp(obj, key) ==
  IF key \in DOMAIN obj THEN obj[key]
  ELSE IF key \in DOMAIN ObjectPrototype THEN ObjectPrototype[key]
  ELSE Undefined

\* The object a value denotes as a spread or for-in source: null and undefined
\* have no properties, nor have the primitives and functions that occur here.
ToObject(h, x) == IF x.k = "object" THEN h[x.v] ELSE EmptyObject

\* x[key] for a value x.
Get(h, x, key) == GetProp(ToObject(h, x), key)

\* The heap with location loc (re)bound to object obj.
Store(h, loc, obj) == [a \in DOMAIN h \cup {loc} |-> IF a = loc THEN obj ELSE h[a]]

\* The heap without the locations in locs (objects nobody references any more).
Drop(h, locs) == [a \in DOMAIN h \ locs |-> h[a]]

\* o(e,n,t): define or assign property n of e.
defineProperty(obj, key, value) ==
  [kk \in DOMAIN obj \cup {key} |-> IF kk = key THEN value ELSE obj[kk]]

\* One source of i: every own enumerable key of src is set on the target
\* (odd positions assign key by key, even positions copy the descriptors; for
\* the data properties used here both leave src's value under each key).
SpreadOne(obj, src) ==
  [kk \in DOMAIN obj \cup DOMAIN src |-> IF kk \in DOMAIN src THEN src[kk] ELSE obj[kk]]

RECURSIVE SpreadAll(_, _, _)
SpreadAll(obj, sources, n) ==
  IF n > Len(sources) THEN obj
  ELSE SpreadAll(SpreadOne(obj, sources[n]), sources, n + 1)

\* i(e, ...sources): updates the object at `target` in place, sources in
\* argument order, and returns it.
objectSpread(h, target, sources) ==
  Store(h, target, SpreadAll(h[target], sources, 1))

\* l(e, n): a new object at `fresh` with e's own keys except those in excluded.
objectWithoutProperties(h, fresh, e, excluded) ==
  LET src == ToObject(h, e)
  IN Store(h, fresh, [kk \in DOMAIN src \ excluded |-> src[kk]])

(* -------------------------- the context store -------------------------- *)

\* s = r.createContext({}): the default value, one object for the module.
DefaultContext == "defaultContext"

ScopeLoc(depth) == "scope" \o ToString(depth)

\* r.useContext(s): the value of the nearest enclosing provider.
useContext(sc) == IF sc = <<>> THEN Ref(DefaultContext) ELSE sc[Len(sc)]

RendererX == Fn("RendererX")

RendererY == Fn("RendererY")

RendererP == Fn("RendererP")

RendererN == Fn("RendererN")

\* A caller-supplied `components` function applied to the context n:
\* "identity" returns its argument, "replace" a new mapping that ignores it.
CallComponents(h, e, n, fresh) ==
  IF e.v = "identity" THEN [heap |-> h, value |-> n]
  ELSE [heap |-> Store(h, fresh, Obj1("wrapper", RendererY)), value |-> Ref(fresh)]

\* A hook that merges the overrides into the context object itself.
useMDXComponentsInPlace(h, sc, e, fresh) ==
  LET n == useContext(sc)
  IN IF ~Truthy(e) THEN [heap |-> h, value |-> n]
     ELSE IF TypeOf(e) = "function" THEN CallComponents(h, e, n, fresh)
     ELSE [heap |-> objectSpread(h, n.v, <<ToObject(h, e)>>), value |-> n]

\* p(e): the context, overridden key-wise by the mapping e in a new object,
\* or handed to the function e, or as it is when e is falsy.
useMDXComponents(h, sc, e, fresh) ==
  LET n == useContext(sc)
  IN IF ~Truthy(e) THEN [heap |-> h, value |-> n]
     ELSE IF TypeOf(e) = "function" THEN CallComponents(h, e, n, fresh)
     ELSE LET h0 == Store(h, fresh, EmptyObject)
              h1 == objectSpread(h0, fresh, <<ToObject(h0, n)>>)
              h2 == objectSpread(h1, fresh, <<ToObject(h1, e)>>)
          IN [heap |-> h2, value |-> Ref(fresh)]

(* ------------------------------ MDXProvider ---------------------------- *)

\* Where a caller's `components` object of a provider lives while c runs.
ProviderComponents == "providerComponents"

\* Objects of the latest MDXCreateElement call: the rest props c, the merged
\* components u and the props handed to the renderer.
RenderTemps == {"rest", "merged", "final"}

\* A `components` input: its value and, for a mapping, the mapping's content.
NoComponents == [value |-> Undefined, object |-> EmptyObject]

MappingAt(loc, obj) == [value |-> Ref(loc), object |-> obj]

FunctionComponents(name) == [value |-> Fn(name), object |-> EmptyObject]

\* The mappings given as `components`: none or plain entries, a
\* parent-qualified entry, a collision with an outer entry, and an entry
\* holding undefined.
ComponentMaps ==
  { EmptyObject,
    Obj1("code", RendererX),
    Obj1("pre.code", RendererP),
    Obj2("code", RendererY, "inlineCode", RendererX),
    Obj1("code", Undefined) }

ProviderInputs ==
  {NoComponents, FunctionComponents("identity"), FunctionComponents("replace")}
    \cup {MappingAt(ProviderComponents, m) : m \in ComponentMaps}

\* The heap with the caller's object of input inp allocated.
WithInput(h, inp) ==
  IF inp.value.k = "object" THEN Store(h, inp.value.v, inp.object) ELSE h

\* A provider that hands down its own components only, dropping the
\* inherited context.
MDXProviderNoInherit(comp) ==
  /\ Len(scopes) < MaxDepth
  /\ el = <<>>
  /\ LET h0 == WithInput(heap, comp)
         fresh == ScopeLoc(Len(scopes) + 1)
         r == IF comp.value.k = "object"
              THEN [heap |-> Store(h0, fresh, comp.object), value |-> Ref(fresh)]
              ELSE useMDXComponents(h0, scopes, comp.value, fresh)
     IN /\ heap' = Drop(r.heap, {ProviderComponents} \cup RenderTemps)
        /\ scopes' = Append(scopes, r.value)
  /\ given' = Append(given, comp)
  /\ out' = <<>>
  /\ UNCHANGED <<call, el>>

\* c(e) (export Zo): n = p(e.components) becomes the value of a new
\* s.Provider scope around e.children. Scopes open and close between the
\* elements of the content, one element being in flight at a time.
MDXProvider(comp) ==
  /\ Len(scopes) < MaxDepth
  /\ el = <<>>
  /\ LET h0 == WithInput(heap, comp)
         r == useMDXComponents(h0, scopes, comp.value, ScopeLoc(Len(scopes) + 1))
     IN /\ heap' = Drop(r.heap, {ProviderComponents} \cup RenderTemps)
        /\ scopes' = Append(scopes, r.value)
  /\ given' = Append(given, comp)
  /\ out' = <<>>
  /\ UNCHANGED <<call, el>>

\* The innermost provider's subtree is done: its scope ends and the mapping
\* it allocated, if any, is no longer referenced.
ProviderExit ==
  /\ scopes # <<>>
  /\ el = <<>>
  /\ heap' = Drop(heap, {ScopeLoc(Len(scopes))} \cup RenderTemps)
  /\ scopes' = SubSeq(scopes, 1, Len(scopes) - 1)
  /\ given' = SubSeq(given, 1, Len(given) - 1)
  /\ out' = <<>>
  /\ UNCHANGED <<call, el>>

(* ------------------------- the element factory ------------------------- *)

\* u itself, as the type of the elements kt creates.
MDXCreateElementType == Fn("MDXCreateElement")

\* arguments[j] (0-based), undefined past the end.
Arg(args, j) == IF j + 1 <= Len(args) THEN args[j + 1] ELSE Undefined

\* for (p = from; p < a; p++) i[p] = t[p]
RECURSIVE CopyArguments(_, _, _, _)
CopyArguments(arr, t, p, a) ==
  IF p < a THEN CopyArguments([arr EXCEPT ![p + 1] = t[p + 1]], t, p + 1, a)
  ELSE arr

\* A factory whose copy loop starts one position late.
ktSkipsFirstChild(h, args) ==
  LET e == Arg(args, 0)
      n == Arg(args, 1)
      o == IF Truthy(n) THEN Get(h, n, "mdxType") ELSE n
  IN IF TypeOf(e) = "string" \/ Truthy(o)
     THEN LET a == Len(args)
              src == ToObject(h, n)
              l0 == [s \in DOMAIN src |-> src[s]]
              l1 == defineProperty(l0, "originalType", e)
              l2 == defineProperty(l1, "mdxType", IF TypeOf(e) = "string" THEN e ELSE o)
              size == IF a < 2 THEN 2 ELSE a
              i0 == [j \in 1..size |-> Undefined]
              i1 == [i0 EXCEPT ![1] = MDXCreateElementType, ![2] = Ref("l")]
          IN [heap |-> Store(h, "l", l2), created |-> CopyArguments(i1, args, 3, a)]
     ELSE [heap |-> h, created |-> args]

\* A factory that writes the metadata into the caller's own props object
\* instead of a copy.
ktAliasesProps(h, args) ==
  LET e == Arg(args, 0)
      n == Arg(args, 1)
      o == IF Truthy(n) THEN Get(h, n, "mdxType") ELSE n
  IN IF TypeOf(e) = "string" \/ Truthy(o)
     THEN LET a == Len(args)
              l0 == ToObject(h, n)
              l1 == defineProperty(l0, "originalType", e)
              l2 == defineProperty(l1, "mdxType", IF TypeOf(e) = "string" THEN e ELSE o)
              size == IF a < 2 THEN 2 ELSE a
              i0 == [j \in 1..size |-> Undefined]
              i1 == [i0 EXCEPT ![1] = MDXCreateElementType, ![2] = Ref("l")]
              h1 == IF n.k = "object" THEN Store(h, n.v, l2) ELSE h
          IN [heap |-> Store(h1, "l", l2), created |-> CopyArguments(i1, args, 2, a)]
     ELSE [heap |-> h, created |-> args]

\* f(e, n, ...children) (export kt): for a string type, or props carrying
\* mdxType, createElement(u, l, ...children) with l a copy of the props plus
\* originalType and mdxType; otherwise createElement with the arguments as
\* they came.
kt(h, args) ==
  LET e == Arg(args, 0)
      n == Arg(args, 1)
      o == IF Truthy(n) THEN Get(h, n, "mdxType") ELSE n
  IN IF TypeOf(e) = "string" \/ Truthy(o)
     THEN LET a == Len(args)
              src == ToObject(h, n)
              l0 == [s \in DOMAIN src |-> src[s]]
              l1 == defineProperty(l0, "originalType", e)
              l2 == defineProperty(l1, "mdxType", IF TypeOf(e) = "string" THEN e ELSE o)
              size == IF a < 2 THEN 2 ELSE a
              i0 == [j \in 1..size |-> Undefined]
              i1 == [i0 EXCEPT ![1] = MDXCreateElementType, ![2] = Ref("l")]
          IN [heap |-> Store(h, "l", l2), created |-> CopyArguments(i1, args, 2, a)]
     ELSE [heap |-> h, created |-> args]

(* --------------------------- MDXCreateElement -------------------------- *)

\* The props u reads itself and keeps from the renderer.
ReservedProps == {"components", "mdxType", "originalType", "parentName"}

\* A lookup that tries the plain tag before the parent-qualified one.
ResolveUnqualifiedFirst(h, u, s, f, a) ==
  OrElse(OrElse(OrElse(Get(h, u, ToStr(f)), Get(h, u, Concat(s, f))),
                GetProp(DEFAULTS, ToStr(f))), a)

\* A lookup that consults the built-in defaults before the components.
ResolveDefaultsFirst(h, u, s, f, a) ==
  OrElse(OrElse(OrElse(GetProp(DEFAULTS, ToStr(f)), Get(h, u, Concat(s, f))),
                Get(h, u, ToStr(f))), a)

\* A lookup that falls back to the tag instead of the original type.
ResolveFallsBackToTag(h, u, s, f, a) ==
  OrElse(OrElse(OrElse(Get(h, u, Concat(s, f)), Get(h, u, ToStr(f))),
                GetProp(DEFAULTS, ToStr(f))), f)

\* A lookup without the original type as the last resort.
ResolveNoFallback(h, u, s, f, a) ==
  OrElse(OrElse(Get(h, u, Concat(s, f)), Get(h, u, ToStr(f))),
         GetProp(DEFAULTS, ToStr(f)))

\* m = u["".concat(s, ".").concat(f)] || u[f] || d[f] || a
Resolve(h, u, s, f, a) ==
  OrElse(OrElse(OrElse(Get(h, u, Concat(s, f)), Get(h, u, ToStr(f))),
                GetProp(DEFAULTS, ToStr(f))), a)

\* An element renderer that looks tags up in the ambient context alone.
MDXCreateElementContextOnly(h, sc, e, n) ==
  LET t == Get(h, e, "components")
      o == Get(h, e, "mdxType")
      a == Get(h, e, "originalType")
      s == Get(h, e, "parentName")
      h1 == objectWithoutProperties(h, "rest", e, ReservedProps)
      m == Resolve(h1, useContext(sc), s, o, a)
      h2 == Store(h1, "final", Obj1("ref", n))
      h3 == IF Truthy(t)
            THEN objectSpread(h2, "final", <<h2["rest"], EmptyObject, Obj1("components", t)>>)
            ELSE objectSpread(h2, "final", <<h2["rest"]>>)
  IN [heap |-> h3, created |-> <<m, Ref("final")>>]

\* An element renderer that hands the renderer the bare ref, without the
\* remaining props.
MDXCreateElementDropsProps(h, sc, e, n) ==
  LET t == Get(h, e, "components")
      o == Get(h, e, "mdxType")
      a == Get(h, e, "originalType")
      s == Get(h, e, "parentName")
      h1 == objectWithoutProperties(h, "rest", e, ReservedProps)
      r == useMDXComponents(h1, sc, t, "merged")
      m == Resolve(r.heap, r.value, s, o, a)
      h2 == Store(r.heap, "final", Obj1("ref", n))
  IN [heap |-> h2, created |-> <<m, Ref("final")>>]

\* u = forwardRef((e, n) => ...): split the reserved props off e, merge the
\* context with e.components, resolve the renderer m and create the element
\* createElement(m, {ref: n, ...c}), passing `components` on when given.
MDXCreateElement(h, sc, e, n) ==
  LET t == Get(h, e, "components")
      o == Get(h, e, "mdxType")
      a == Get(h, e, "originalType")
      s == Get(h, e, "parentName")
      h1 == objectWithoutProperties(h, "rest", e, ReservedProps)
      r == useMDXComponents(h1, sc, t, "merged")
      f == o
      m == Resolve(r.heap, r.value, s, f, a)
      h2 == Store(r.heap, "final", Obj1("ref", n))
      h3 == IF Truthy(t)
            THEN objectSpread(h2, "final", <<h2["rest"], EmptyObject, Obj1("components", t)>>)
            ELSE objectSpread(h2, "final", <<h2["rest"]>>)
  IN [heap |-> h3, created |-> <<m, Ref("final")>>]

(* ------------------------------- inputs -------------------------------- *)

\* The types kt is called with: tags, among them the two with a built-in
\* default, a name every object inherits and the empty string; a component;
\* and an undefined component.
Types ==
  { Str("code"), Str("inlineCode"), Str("wrapper"), Str("toString"), Str(""),
    Fn("CompA"), Undefined }

\* The per-node `components` mapping of a call, when its props name one.
NodeComponents == Obj1("code", RendererN)

\* The props objects kt is called with.
PropsObjects ==
  { EmptyObject,
    Obj1("inline", True),
    Obj2("parentName", Str("pre"), "className", Str("language-json")),
    Obj1("components", Ref("callerComponents")),
    Obj2("components", Ref("callerComponents"), "parentName", Str("pre")),
    Obj1("mdxType", Str("code")),
    Obj3("mdxType", Str("MDXLayout"), "originalType", Str("div"), "inline", True) }

\* The second argument of kt: null, or a props object of the caller's.
PropsValues == {[value |-> Null, object |-> EmptyObject]}
                 \cup {MappingAt("callerProps", obj) : obj \in PropsObjects}

Children == {Str("c1"), Str("c2")}

ChildLists == UNION {[1..n -> Children] : n \in 0..MaxChildren}

(* ------------------------------- actions ------------------------------- *)

\* The objects of one kt call: the caller's props and `components`, and l.
CallObjects == {"l", "callerProps", "callerComponents"}

\* The caller builds its props (and `components`) objects and calls kt; the
\* element description of the host's createElement call is kept in el.
CallKt ==
  /\ el = <<>>
  /\ \E type \in Types, pv \in PropsValues, ch \in ChildLists, bare \in BOOLEAN :
       /\ (bare => pv.value = Null /\ ch = <<>>)
       /\ LET args == IF bare THEN <<type>> ELSE <<type, pv.value>> \o ch
              h1 == IF bare THEN heap ELSE WithInput(heap, pv)
              h2 == IF ~bare /\ "components" \in DOMAIN pv.object
                    THEN Store(h1, "callerComponents", NodeComponents) ELSE h1
              r == kt(h2, args)
          IN /\ heap' = r.heap
             /\ el' = r.created
             /\ call' = [args |-> args, props |-> IF bare THEN EmptyObject ELSE pv.object]
  /\ out' = <<>>
  /\ UNCHANGED <<scopes, given>>

\* The host is done with the element: its description and the objects of its
\* call are no longer referenced.
Discard ==
  /\ el # <<>>
  /\ heap' = Drop(heap, RenderTemps \cup CallObjects)
  /\ el' = <<>>
  /\ call' = [args |-> <<>>, props |-> EmptyObject]
  /\ out' = <<>>
  /\ UNCHANGED <<scopes, given>>

\* The host renders an element kt created with type u: u runs on the
\* element's props under the current scope, with no ref forwarded.
Render ==
  /\ el # <<>>
  /\ el[1] = MDXCreateElementType
  /\ out = <<>>
  /\ LET r == MDXCreateElement(heap, scopes, el[2], Null)
     IN /\ heap' = r.heap
        /\ out' = r.created
  /\ UNCHANGED <<scopes, given, call, el>>

Init ==
  /\ heap = [a \in {DefaultContext} |-> EmptyObject]
  /\ scopes = <<>>
  /\ given = <<>>
  /\ call = [args |-> <<>>, props |-> EmptyObject]
  /\ el = <<>>
  /\ out = <<>>

Next ==
  \/ \E comp \in ProviderInputs : MDXProvider(comp)
  \/ ProviderExit
  \/ CallKt
  \/ Render
  \/ Discard

Spec == Init /\ [][Next]_vars

(* ---------------------- vocabulary of the properties ------------------- *)

\* c overridden key-wise by o: o's value on every key of o, c's elsewhere.
Overridden(c, o) ==
  [key \in DOMAIN c \cup DOMAIN o |-> IF key \in DOMAIN o THEN o[key] ELSE c[key]]

\* The mapping m holds a usable (truthy) entry of its own under key.
HasEntry(m, key) == key \in DOMAIN m /\ Truthy(m[key])

\* The ambient context: the mapping the innermost scope provides.
Ambient == heap[useContext(scopes).v]

\* kt took the wrapped path: the element in flight is an MDXCreateElement.
Wrapped == el # <<>> /\ el[1] = MDXCreateElementType

\* MDXCreateElement has run on the element in flight.
Rendered == out # <<>>

\* The type and the props the caller passed to kt.
CallType == call.args[1]

CallProp(key) == IF key \in DOMAIN call.props THEN call.props[key] ELSE Undefined

\* The tag kt records as mdxType and the key MDXCreateElement looks up.
CallTag == IF CallType.k = "string" THEN CallType ELSE CallProp("mdxType")

TagKey == ToStr(CallTag)

QualifiedKey == ToStr(CallProp("parentName")) \o "." \o TagKey

\* The element carries a per-node `components` mapping, and its content.
HasOverride == "components" \in DOMAIN call.props

Override == IF HasOverride THEN heap["callerComponents"] ELSE EmptyObject

\* The components MDXCreateElement resolves against.
Effective == Overridden(Ambient, Override)

\* The first truthy value of a list, the last one when none is.
RECURSIVE FirstTruthy(_)
FirstTruthy(vs) ==
  IF Len(vs) = 1 \/ Truthy(Head(vs)) THEN Head(vs) ELSE FirstTruthy(Tail(vs))

\* Tags with a built-in default renderer.
BuiltInTags == {"inlineCode", "wrapper"}

(* ------------------------------ properties ----------------------------- *)

\* C1 as stated: whenever the element's `components` prop maps its tag to a
\* renderer R', MDXCreateElement chooses R', whatever the context holds.
C1_OverrideAlwaysWins ==
  (Rendered /\ HasOverride /\ HasEntry(Override, TagKey))
    => out[1] = Override[TagKey]

\* C1, amended: the per-node override for the tag is chosen whenever the
\* context merged with the override holds no truthy entry under the
\* parent-qualified key parentName.tag.
C1_OverrideDominance ==
  (Rendered /\ HasOverride /\ HasEntry(Override, TagKey)
     /\ ~HasEntry(Effective, QualifiedKey))
    => out[1] = Override[TagKey]

\* An override beat a different context entry for the same tag.
C1_Witness ==
  /\ Rendered /\ HasOverride
  /\ HasEntry(Ambient, "code") /\ Ambient["code"] = RendererX
  /\ CallType = Str("code")
  /\ out[1] = RendererN

\* C2 as stated: with no `components` prop, a tag the context maps to a
\* renderer R is rendered by R, for every parentName and context.
C2_ContextEntryAlwaysWins ==
  (Rendered /\ ~HasOverride /\ HasEntry(Ambient, TagKey))
    => out[1] = Ambient[TagKey]

\* C2, amended: with no `components` prop, the context's entry for the tag is
\* chosen whenever the context holds no truthy entry under parentName.tag.
C2_ContextLookup ==
  (Rendered /\ ~HasOverride /\ HasEntry(Ambient, TagKey)
     /\ ~HasEntry(Ambient, QualifiedKey))
    => out[1] = Ambient[TagKey]

\* A context entry was chosen for a tag that also has a built-in default.
C2_Witness ==
  /\ Rendered /\ ~HasOverride
  /\ CallType = Str("inlineCode")
  /\ HasEntry(Ambient, "inlineCode")
  /\ out[1] = RendererX

\* C3 as stated: with no `components` prop and no context entry for the tag,
\* the renderer is the original type, the tag itself.
C3_NoEntryMeansPassThrough ==
  (Rendered /\ ~HasOverride /\ TagKey \notin DOMAIN Ambient)
    => out[1] = CallType

\* C3, amended: with no `components` prop, no context entry for the tag and no
\* truthy entry under parentName.tag, the renderer is the original type,
\* unless the tag has a built-in default (inlineCode, wrapper) or names a
\* property every object inherits (toString, ...).
C3_PassThroughFallback ==
  (Rendered /\ ~HasOverride /\ TagKey \notin DOMAIN Ambient
     /\ ~HasEntry(Ambient, QualifiedKey)
     /\ TagKey \notin BuiltInTags \cup DOMAIN ObjectPrototype)
    => out[1] = CallType

\* A tag without any entry was passed through under a non-empty context.
C3_Witness ==
  /\ Rendered /\ ~HasOverride
  /\ CallType = Str("code")
  /\ Ambient = Obj1("wrapper", RendererY)
  /\ out[1] = Str("code")

\* The locations that hold context mappings.
ContextLocs == {DefaultContext} \cup {ScopeLoc(k) : k \in 1..(MaxDepth + 1)}

\* The `components` input is a mapping (not absent, not a function).
IsMapping(inp) == inp.value.k = "object"

\* C4: useMDXComponents(o) leaves every live context mapping as it was, and
\* for a mapping o yields, in a new object, the current context overridden
\* key-wise by o: o's value on o's keys, the context's value on the others,
\* and no further key. Stated of every step: of the scope a provider opens
\* and of the components an element's lookup merges.
C4_ExtendNonMutatingRightBiased ==
  [][ /\ \A loc \in ContextLocs :
           (loc \in DOMAIN heap /\ loc \in DOMAIN heap') => heap'[loc] = heap[loc]
      /\ (Len(scopes') > Len(scopes) /\ IsMapping(given'[Len(given')]))
           => /\ scopes'[Len(scopes')].v \notin DOMAIN heap
              /\ heap'[scopes'[Len(scopes')].v]
                   = [key \in DOMAIN Ambient \cup DOMAIN given'[Len(given')].object |->
                        IF key \in DOMAIN given'[Len(given')].object
                        THEN given'[Len(given')].object[key] ELSE Ambient[key]]
      /\ (~Rendered /\ Rendered' /\ HasOverride)
           => /\ heap'["merged"] = Overridden(Ambient, Override)
              /\ heap'["callerComponents"] = heap["callerComponents"]
    ]_vars

\* A scope was opened over a context with a colliding key and an own key.
C4_Witness ==
  /\ Len(scopes) = 2
  /\ given[1].object = Obj1("code", RendererX)
  /\ given[2].object = Obj2("code", RendererY, "inlineCode", RendererX)
  /\ IsMapping(given[1]) /\ IsMapping(given[2])
  /\ heap[scopes[1].v] = Obj1("code", RendererX)
  /\ heap[scopes[2].v] = Obj2("code", RendererY, "inlineCode", RendererX)

\* C5: merging is right-biased. The props kt hands on are the caller's props
\* overridden by the injected originalType and mdxType, every other caller key
\* keeping its value, and the caller's props object stays as the caller built
\* it; the props and components MDXCreateElement assembles with objectSpread
\* hold the union of the sources' keys with the later source's value on every
\* collision.
C5_PropsMergeRightBiased ==
  /\ (el # <<>> /\ Len(call.args) >= 2 /\ call.args[2].k = "object")
       => heap[call.args[2].v] = call.props
  /\ Wrapped
       => heap["l"] = Overridden(call.props,
                                 Obj2("originalType", CallType, "mdxType", CallTag))
  /\ (Rendered /\ HasOverride)
       => heap["merged"] = Overridden(Ambient, Override)
  /\ Rendered
       => heap["final"]
            = Overridden(Overridden(Obj1("ref", Null),
                                    [key \in DOMAIN call.props \ ReservedProps |->
                                       call.props[key]]),
                         IF HasOverride
                         THEN Obj1("components", call.props["components"])
                         ELSE EmptyObject)

\* Caller props named like the injected metadata lost to it, the rest stayed.
C5_Witness ==
  /\ Wrapped
  /\ CallType = Str("code")
  /\ call.props = Obj3("mdxType", Str("MDXLayout"), "originalType", Str("div"), "inline", True)
  /\ heap["l"]["mdxType"] = Str("code")
  /\ heap["l"]["inline"] = True
  /\ heap["callerProps"]["mdxType"] = Str("MDXLayout")

\* C6 as stated: with no `components` prop, a tag the context maps to R is
\* rendered by R with props holding every non-reserved caller prop.
C6_EndToEndAlways ==
  (Rendered /\ ~HasOverride /\ HasEntry(Ambient, TagKey))
    => /\ out[1] = Ambient[TagKey]
       /\ \A key \in DOMAIN call.props \ ReservedProps :
            /\ key \in DOMAIN heap[out[2].v]
            /\ heap[out[2].v][key] = call.props[key]

\* C6, amended: the same, provided the context holds no truthy entry under
\* parentName.tag.
C6_EndToEnd ==
  (Rendered /\ ~HasOverride /\ HasEntry(Ambient, TagKey)
     /\ ~HasEntry(Ambient, QualifiedKey))
    => /\ out[1] = Ambient[TagKey]
       /\ \A key \in DOMAIN call.props \ ReservedProps :
            /\ key \in DOMAIN heap[out[2].v]
            /\ heap[out[2].v][key] = call.props[key]

\* The scenario: context {code: RendererX}, tag "code", props {inline: true}.
C6_Witness ==
  /\ Rendered
  /\ Ambient = Obj1("code", RendererX)
  /\ call.args = <<Str("code"), Ref("callerProps")>>
  /\ call.props = Obj1("inline", True)
  /\ out[1] = RendererX
  /\ heap[out[2].v]["inline"] = True

\* C7: the host's createElement call receives exactly the children kt was
\* called with, in the same order, on the wrapped and on the direct path.
C7_ChildrenForwarded ==
  el # <<>>
    => /\ Len(el) = (IF Wrapped /\ Len(call.args) < 2 THEN 2 ELSE Len(call.args))
       /\ \A j \in 3..Len(call.args) : el[j] = call.args[j]
       /\ (~Wrapped => el = call.args)

\* Two different children went through the wrapped path.
C7_Witness ==
  /\ Wrapped
  /\ Len(call.args) = 4
  /\ el[3] = Str("c2") /\ el[4] = Str("c1")

\* C8 as stated: whatever the tag, context and props, the renderer chosen is
\* defined and not empty.
C8_AlwaysSomeRenderer == Rendered => Truthy(out[1])

\* C8, amended: the renderer chosen is defined and not empty whenever the type
\* passed to kt is (a non-empty tag or a defined component), for every context
\* and every props value, absent and null included.
C8_ResolutionNeverFails == (Rendered /\ Truthy(CallType)) => Truthy(out[1])

\* A tag resolved with no props at all and an empty context.
C8_Witness ==
  /\ Rendered
  /\ call.args = <<Str("code")>>
  /\ Ambient = EmptyObject
  /\ out[1] = Str("code")

\* The context of scope k as the providers' inputs determine it: the root
\* context {} overridden by each mapping in turn; a provider without
\* components, or with the identity function, passes the context on; the
\* replacing function yields its own mapping.
RECURSIVE ExpectedContext(_)
ExpectedContext(k) ==
  IF k = 0 THEN EmptyObject
  ELSE IF IsMapping(given[k]) THEN Overridden(ExpectedContext(k - 1), given[k].object)
  ELSE IF given[k].value = Fn("replace") THEN Obj1("wrapper", RendererY)
  ELSE ExpectedContext(k - 1)

\* C9: the context of every open scope is the root context overridden by the
\* components of the providers around it, outermost first, whatever scopes
\* were opened or closed inside it since; the root context stays empty; and a
\* provider without components hands on its parent's context object itself.
C9_ContextInheritance ==
  /\ heap[DefaultContext] = EmptyObject
  /\ Len(given) = Len(scopes)
  /\ \A k \in 1..Len(scopes) :
       /\ heap[scopes[k].v] = ExpectedContext(k)
       /\ given[k] = NoComponents
            => scopes[k] = (IF k = 1 THEN Ref(DefaultContext) ELSE scopes[k - 1])

\* Two nested mapping providers: the inner scope sees both entries, the outer
\* one still only its own.
C9_Witness ==
  /\ Len(scopes) = 2
  /\ IsMapping(given[1]) /\ given[1].object = Obj1("code", RendererX)
  /\ IsMapping(given[2]) /\ given[2].object = Obj1("pre.code", RendererP)
  /\ heap[scopes[1].v] = Obj1("code", RendererX)
  /\ heap[scopes[2].v] = Obj2("code", RendererX, "pre.code", RendererP)

\* C10: the renderer is the first truthy value of u[parentName.tag], u[tag],
\* the built-in default for the tag and the original type, u being the context
\* overridden by the element's components. So a parent-qualified entry beats
\* the plain one, an entry beats the built-in default, and the built-in
\* default beats the original type.
C10_ResolutionPriority ==
  Rendered
    => /\ out[1] = FirstTruthy(<< GetProp(Effective, QualifiedKey),
                                  GetProp(Effective, TagKey),
                                  GetProp(Obj2("inlineCode", Str("code"),
                                               "wrapper", Fn("wrapper")), TagKey),
                                  CallType >>)
       /\ HasEntry(Effective, QualifiedKey) => out[1] = Effective[QualifiedKey]
       /\ (~HasEntry(Effective, QualifiedKey) /\ HasEntry(Effective, TagKey))
            => out[1] = Effective[TagKey]
       /\ (~HasEntry(Effective, QualifiedKey) /\ TagKey \notin DOMAIN Effective)
            => /\ TagKey = "inlineCode" => out[1] = Str("code")
               /\ TagKey = "wrapper" => out[1] = Fn("wrapper")

\* A parent-qualified entry won over the plain entry for the same tag.
C10_Witness ==
  /\ Rendered
  /\ CallType = Str("code")
  /\ HasEntry(Effective, "code")
  /\ HasEntry(Effective, "pre.code")
  /\ CallProp("parentName") = Str("pre")
  /\ out[1] = RendererP

====
